---------------------------- MODULE Spec2Model ----------------------------
(***************************************************************************)
(* Measure normalisation and dataset building of the MIR-lab pipeline.     *)
(*                                                                         *)
(*   src/Data_Prep_3.py       load_downbeats, extract_time_signatures,     *)
(*                            extract_notes, assign_time_signature, main   *)
(*   src/Data_Merge_Final.py  piece discovery, the train/test/val split,   *)
(*                            merge_perf_pure, the dataset loop            *)
(*                                                                         *)
(* Real times (seconds of the recording) are integers in an arbitrary      *)
(* tick; only their ratios enter the computation.  Normalized times are    *)
(* integers in units of 10^-5 s, the precision round(x, 5) keeps.          *)
(* A signature string "b/t" is a TLA+ string; int() and float() are        *)
(* lookup tables that raise on the strings Python rejects.                 *)
(***************************************************************************)
EXTENDS Integers, Sequences, FiniteSets, TLC

VARIABLES
    pc,                 \* position of the running script
    \* ---- Data_Prep_3.extract_notes / assign_time_signature
    ann,                \* the lines of the annotation file not yet read
    times,              \* load_downbeats' times list
    ts_points,          \* main's ts_points: <<measure, "b/t">> change points
    downbeats, end_times, sig_map, last_sig, i,
    records,            \* extract_notes' records list
    cur,                \* the note loop's locals: onset, offset, idx, ...
    df,                 \* the table main writes
    \* ---- Data_Prep_3.extract_time_signatures
    xml,                \* the <measure> elements of the score, document order
    k,                  \* position of the findall loop
    fn_points,          \* the function's local ts_points list
    \* ---- Data_Merge_Final, the split
    piece_to_files, all_pieces, force_test_pieces, TRAIN_SPLIT, TEST_SPLIT,
    remaining_pieces, train_pieces, test_pieces, val_pieces,
    train_files, test_files, val_files,
    \* ---- Data_Merge_Final.merge_perf_pure
    pure_isfile,        \* whether the directory holds midi_score.csv
    perf_df, pure_df, measures, mi, merge_records,
    \* ---- the two batch loops
    todo,               \* files still to visit, in visiting order
    csvs,               \* note tables Data_Prep_3 wrote
    failed,             \* files whose processing raised
    split_out,          \* split name -> files whose records were saved
    merged_now          \* files merged for the split being built

notesVars == <<ann, times, downbeats, end_times, sig_map, last_sig, i, records, cur, df>>
tsVars    == <<xml, k, fn_points>>
splitVars == <<piece_to_files, all_pieces, force_test_pieces, TRAIN_SPLIT,
               TEST_SPLIT, remaining_pieces, train_pieces, test_pieces,
               val_pieces, train_files, test_files, val_files>>
mergeVars == <<pure_isfile, perf_df, pure_df, measures, mi, merge_records>>
batchVars == <<todo, csvs, failed, split_out, merged_now>>
vars == <<pc, ts_points, notesVars, tsVars, splitVars, mergeVars, batchVars>>

----------------------------------------------------------------------------
(* Bounds of the model.                                                    *)

MaxTime == 3        \* annotation timestamps are 0..MaxTime ticks
MaxLines == 2       \* lines of an annotation file
MaxNotes == 2       \* notes of a MIDI file
MaxChange == 3      \* change points sit at measures 1..MaxChange
MaxTs == 2          \* change points of a score
MaxXml == 3         \* <measure> elements of a score
MaxRows == 3        \* rows of a note table
MaxMeasure == 4     \* measure indices of a note table
MaxForce == 2       \* entries of the force-test list

----------------------------------------------------------------------------
(* Sequence helpers.                                                       *)

Range(s) == {s[j] : j \in DOMAIN s}

SeqsUpTo(S, n) == UNION {[1..m -> S] : m \in 0..n}

RECURSIVE Insert(_, _)
Insert(s, x) ==
    IF s = <<>> THEN <<x>>
    ELSE IF x < Head(s) THEN <<x>> \o s
    ELSE <<Head(s)>> \o Insert(Tail(s), x)

\* sorted(list) on numbers
RECURSIVE sorted(_)
sorted(s) == IF s = <<>> THEN <<>> ELSE Insert(sorted(SubSeq(s, 1, Len(s) - 1)), s[Len(s)])

RECURSIVE SumSeq(_)
SumSeq(s) == IF s = <<>> THEN 0 ELSE Head(s) + SumSeq(Tail(s))

RECURSIVE Flatten(_)
Flatten(ss) == IF ss = <<>> THEN <<>> ELSE Head(ss) \o Flatten(Tail(ss))

----------------------------------------------------------------------------
(* Data_Prep_3.load_downbeats                                              *)

\* float(parts[0]): the first field either parses to a number or raises
\* ValueError; a field is modelled by what float() makes of it.
Field(t) == [parses |-> TRUE, value |-> t]
BadField == [parses |-> FALSE, value |-> 0]

DbLines == {[nfields |-> 3, first |-> Field(t), third |-> "db"] : t \in 0..MaxTime}
OtherLines ==
    { [nfields |-> 3, first |-> Field(1), third |-> "b"],     \* a plain beat
      [nfields |-> 2, first |-> Field(1), third |-> ""],      \* too few fields
      [nfields |-> 3, first |-> BadField, third |-> "db"] }   \* float() raises
Lines == DbLines \cup OtherLines

\* 'db' in parts[2]
ContainsDb(label) == label \in {"db", "bdb"}

\* lines 20-25: what one line adds to times
read_line(line, ts) ==
    IF line.nfields >= 3 /\ ContainsDb(line.third) /\ line.first.parses
    THEN Append(ts, line.first.value)
    ELSE ts

----------------------------------------------------------------------------
(* Data_Prep_3.extract_notes                                               *)

SigStrings == {"4/4", "3/4", "6/8"}
None == "None"

\* map(int, ts.split("/"))
SigParse(ts) ==
    CASE ts = "4/4" -> <<4, 4>>
      [] ts = "3/4" -> <<3, 4>>
      [] ts = "6/8" -> <<6, 8>>

Unit == 100000      \* normalized times are counted in 10^-5 s

\* (60 / 120) * beats * (4 / beat_type), exact for the beat types used here;
\* a zero beat type raises inside the try and gives the 2.0 default.
sig_to_duration(ts) ==
    IF ts = None THEN 2 * Unit
    ELSE LET beats == SigParse(ts)[1]
             beat_type == SigParse(ts)[2]
         IN IF beat_type = 0 THEN 2 * Unit
            ELSE (2 * Unit * beats) \div beat_type

\* bisect.bisect_right(a, x, lo, hi), 0-based as in Python
RECURSIVE bisect_right_mut(_, _, _, _)
bisect_right_mut(a, x, lo, hi) ==
    IF lo < hi
    THEN LET mid == (lo + hi) \div 2
         IN IF x <= a[mid + 1] THEN bisect_right_mut(a, x, lo, mid)
            ELSE bisect_right_mut(a, x, mid + 1, hi)
    ELSE lo

RECURSIVE bisect_right(_, _, _, _)
bisect_right(a, x, lo, hi) ==
    IF lo < hi
    THEN LET mid == (lo + hi) \div 2
         IN IF x < a[mid + 1] THEN bisect_right(a, x, lo, mid)
            ELSE bisect_right(a, x, mid + 1, hi)
    ELSE lo

intervals(d) == [j \in 1..(Len(d) - 1) |-> d[j + 1] - d[j]]
last_interval(d) == IF intervals(d) # <<>> THEN intervals(d)[Len(intervals(d))] ELSE 0
EndTimes(d) == Tail(d) \o <<d[Len(d)] + last_interval(d)>>

\* for m, s in reversed(ts_points): if measure_num >= m: last_sig = s; break
RECURSIVE sig_scan_nobreak(_, _, _)
sig_scan_nobreak(ts, measure_num, prev) ==
    IF ts = <<>> THEN prev
    ELSE LET m == ts[Len(ts)][1]
             s == ts[Len(ts)][2]
             rest == SubSeq(ts, 1, Len(ts) - 1)
         IN IF measure_num >= m THEN sig_scan_nobreak(rest, measure_num, s)
            ELSE sig_scan_nobreak(rest, measure_num, prev)

RECURSIVE sig_scan(_, _, _)
sig_scan(ts, measure_num, prev) ==
    IF ts = <<>> THEN prev
    ELSE LET m == ts[Len(ts)][1]
             s == ts[Len(ts)][2]
         IN IF measure_num >= m THEN s
            ELSE sig_scan(SubSeq(ts, 1, Len(ts) - 1), measure_num, prev)

\* round(x, 5) of the exact quotient num / den, in 10^-5 s
Round5(num, den) == (2 * num + den) \div (2 * den)

\* pretty_midi.note_number_to_name
note_number_to_name(pitch) ==
    CASE pitch = 60 -> "C4"
      [] pitch = 62 -> "D4"

Pitches == {60}
NoteLengths == {1}

NoCur == [n |-> 0, onset |-> 0, offset |-> 0, idx |-> 0,
          dropped |-> FALSE, emitted |-> FALSE, real_duration |-> 0]

\* sum(sig_map.get(m, 2.0) for m in range(1, measure_num))
measure_start_of(smap, measure_num) ==
    SumSeq([m \in 1..(measure_num - 1) |->
               IF m \in DOMAIN smap THEN smap[m] ELSE 2 * Unit])

\* One record of the note loop.  With a zero real duration the quotient is
\* not a finite number: finite is FALSE and the times carry no value.
NoteRecord(onset, offset, pitch, idx, d, e, smap) ==
    LET real_start == d[idx + 1]
        real_end == e[idx + 1]
        real_duration == real_end - real_start
        norm_duration == IF (idx + 1) \in DOMAIN smap THEN smap[idx + 1] ELSE 2 * Unit
        measure_num == idx + 1
        measure_start == measure_start_of(smap, measure_num)
        measure_end == measure_start + norm_duration
    IN [measure |-> measure_num,
        note |-> note_number_to_name(pitch),
        finite |-> real_duration # 0,
        onset |-> IF real_duration = 0 THEN 0
                  ELSE Round5((onset - real_start) * norm_duration
                                 + measure_start * real_duration, real_duration),
        offset |-> IF real_duration = 0 THEN 0
                   ELSE Round5((offset - real_start) * norm_duration
                                  + measure_start * real_duration, real_duration),
        measure_start |-> measure_start,
        measure_end |-> measure_end]

\* sort_values(by='onset'): ascending, non-finite values last; the order of
\* equal onsets is whatever the sort leaves.
OnsetLeq(r1, r2) ==
    \/ ~r2.finite
    \/ r1.finite /\ r1.onset <= r2.onset

SortedByOnset(s) == \A a, b \in DOMAIN s : a < b => OnsetLeq(s[a], s[b])

Reorderings(s) ==
    {[j \in DOMAIN s |-> s[p[j]]] : p \in Permutations(DOMAIN s)}


\* assign_time_signature.get_sig
RECURSIVE get_sig_loop(_, _, _)
get_sig_loop(ts, m, sig) ==
    IF ts = <<>> THEN sig
    ELSE IF m >= Head(ts)[1] THEN get_sig_loop(Tail(ts), m, Head(ts)[2])
    ELSE sig

get_sig(ts, m) == get_sig_loop(ts, m, ts[1][2])

assign_time_signature(table, ts) ==
    [j \in DOMAIN table |->
        [measure |-> table[j].measure, note |-> table[j].note,
         finite |-> table[j].finite,
         onset |-> table[j].onset, offset |-> table[j].offset,
         measure_start |-> table[j].measure_start,
         measure_end |-> table[j].measure_end,
         time_signature |-> IF ts = <<>> THEN None ELSE get_sig(ts, table[j].measure)]]

----------------------------------------------------------------------------
(* Values the variables of the other scripts keep while one script runs.   *)

IdleNotes ==
    /\ ann = <<>> /\ times = <<>> /\ downbeats = <<>> /\ end_times = <<>> /\ sig_map = <<>>
    /\ last_sig = "4/4" /\ i = 0 /\ records = <<>> /\ cur = NoCur /\ df = <<>>

NoXml == [exists |-> FALSE, parses |-> FALSE, measures |-> <<>>]

IdleTs == xml = NoXml /\ k = 0 /\ fn_points = <<>>

IdleSplit ==
    /\ piece_to_files = <<>> /\ all_pieces = <<>> /\ force_test_pieces = <<>>
    /\ TRAIN_SPLIT = 5 /\ TEST_SPLIT = 4
    /\ remaining_pieces = <<>> /\ train_pieces = <<>> /\ test_pieces = <<>>
    /\ val_pieces = <<>> /\ train_files = <<>> /\ test_files = <<>>
    /\ val_files = <<>>

IdleMerge ==
    /\ pure_isfile = FALSE
    /\ perf_df = <<>> /\ pure_df = <<>> /\ measures = <<>> /\ mi = 0
    /\ merge_records = <<>>

IdleBatch ==
    /\ todo = <<>> /\ csvs = {} /\ failed = {} /\ split_out = {}
    /\ merged_now = <<>>

----------------------------------------------------------------------------
(* extract_notes and assign_time_signature on one MIDI file, as main runs  *)
(* them inside its try block.                                              *)

\* change-point lists as extract_time_signatures returns them: ascending,
\* one entry per measure number
TsLists ==
    {s \in SeqsUpTo((1..MaxChange) \X SigStrings, MaxTs) :
        \A a, b \in DOMAIN s : a < b => s[a][1] < s[b][1]}

FewTs == {<<>>, << <<2, "3/4">> >>}

AnnFiles == SeqsUpTo(Lines, MaxLines)

\* annotation files with a downbeat every tick
PlainAnn(n) == [j \in 1..n |-> [nfields |-> 3, first |-> Field(j), third |-> "db"]]
FewAnn == {PlainAnn(n) : n \in 0..MaxLines}

InitNotes ==
    /\ pc = "load"
    /\ \/ ann \in AnnFiles /\ ts_points \in FewTs
       \/ ann \in FewAnn /\ ts_points \in TsLists
    /\ times = <<0>>
    /\ downbeats = <<>> /\ end_times = <<>> /\ sig_map = <<>>
    /\ last_sig = "4/4" /\ i = 0 /\ records = <<>> /\ cur = NoCur /\ df = <<>>
    /\ IdleTs /\ IdleSplit /\ IdleMerge /\ IdleBatch

NotesOthers == UNCHANGED <<ts_points, ann, times, tsVars, splitVars, mergeVars, batchVars>>

\* lines 19-25: load_downbeats reads one line of the annotation file
ReadLine ==
    /\ pc = "load"
    /\ ann # <<>>
    /\ times' = read_line(Head(ann), times)
    /\ ann' = Tail(ann)
    /\ UNCHANGED <<pc, downbeats, end_times, sig_map, last_sig, i, records, cur, df>>
    /\ UNCHANGED <<ts_points, tsVars, splitVars, mergeVars, batchVars>>

\* lines 26 and 63-69: the sorted downbeats and each measure's end time
LoadDownbeats ==
    /\ pc = "load"
    /\ ann = <<>>
    /\ downbeats' = sorted(times)
    /\ times' = <<>>
    /\ end_times' = EndTimes(downbeats')
    /\ sig_map' = <<>>
    /\ last_sig' = "4/4"
    /\ i' = 0
    /\ pc' = "sig_loop"
    /\ UNCHANGED <<records, cur, df>>
    /\ UNCHANGED <<ts_points, ann, tsVars, splitVars, mergeVars, batchVars>>

\* lines 83-89: one iteration of the sig_map loop
SigLoopStep ==
    /\ pc = "sig_loop"
    /\ i < Len(downbeats)
    /\ LET measure_num == i + 1
       IN /\ last_sig' = sig_scan(ts_points, measure_num, last_sig)
          /\ sig_map' = Append(sig_map, sig_to_duration(last_sig'))
    /\ i' = i + 1
    /\ UNCHANGED <<pc, downbeats, end_times, records, cur, df>>
    /\ NotesOthers

SigLoopEnd ==
    /\ pc = "sig_loop"
    /\ i = Len(downbeats)
    /\ pc' = "notes"
    /\ UNCHANGED <<downbeats, end_times, sig_map, last_sig, i, records, cur, df>>
    /\ NotesOthers

\* n counts the notes visited; dropped: the continue of line 97 was taken;
\* emitted: records.append was reached
Locals(onset, offset, idx, dropped, emitted, dur) ==
    [n |-> cur.n + 1, onset |-> onset, offset |-> offset, idx |-> idx,
     dropped |-> dropped, emitted |-> emitted, real_duration |-> dur]

\* lines 93-118: one note of the MIDI file
NoteStep(onset, offset, pitch) ==
    /\ pc = "notes"
    /\ cur.n < MaxNotes
    /\ LET idx == bisect_right(downbeats, onset, 0, Len(downbeats)) - 1
       IN IF idx < 0 \/ idx >= Len(end_times)
          THEN /\ cur' = Locals(onset, offset, idx, TRUE, FALSE, 0)
               /\ UNCHANGED <<pc, records>>
          ELSE LET real_duration == end_times[idx + 1] - downbeats[idx + 1]
                   rec == NoteRecord(onset, offset, pitch, idx, downbeats,
                                     end_times, sig_map)
               IN IF real_duration # 0
                  THEN /\ records' = Append(records, rec)
                       /\ cur' = Locals(onset, offset, idx, FALSE, TRUE, real_duration)
                       /\ pc' = pc
                  ELSE \* x / 0.0: ZeroDivisionError on Python floats,
                       \* inf or nan on numpy floats
                       \/ /\ pc' = "raised"
                          /\ records' = records
                          /\ cur' = Locals(onset, offset, idx, FALSE, FALSE, 0)
                       \/ /\ pc' = pc
                          /\ records' = Append(records, rec)
                          /\ cur' = Locals(onset, offset, idx, FALSE, TRUE, 0)
    /\ UNCHANGED <<downbeats, end_times, sig_map, last_sig, i, df>>
    /\ NotesOthers

\* line 120: DataFrame(records).sort_values(by='onset'); an empty frame has
\* no 'onset' column and sort_values raises KeyError
SortRecords ==
    /\ pc = "notes"
    /\ IF records = <<>>
       THEN pc' = "raised" /\ records' = records
       ELSE /\ records' \in {r \in Reorderings(records) : SortedByOnset(r)}
            /\ pc' = "assign"
    /\ UNCHANGED <<downbeats, end_times, sig_map, last_sig, i, cur, df>>
    /\ NotesOthers

\* lines 177-179: the time_signature column, then to_csv.  pc = "raised"
\* is main's except branch: the error is printed and no table is written.
AssignAndWrite ==
    /\ pc = "assign"
    /\ df' = assign_time_signature(records, ts_points)
    /\ pc' = "written"
    /\ UNCHANGED <<downbeats, end_times, sig_map, last_sig, i, records, cur>>
    /\ NotesOthers

NextNotes ==
    \/ ReadLine
    \/ LoadDownbeats
    \/ SigLoopStep
    \/ SigLoopEnd
    \/ \E onset \in 0..(MaxTime + 2), len \in NoteLengths, pitch \in Pitches :
          NoteStep(onset, onset + len, pitch)
    \/ SortRecords
    \/ AssignAndWrite

SpecNotes == InitNotes /\ [][NextNotes]_vars

\* the synthetic final boundary: last downbeat plus the last interval
SyntheticEnd == downbeats[Len(downbeats)] + last_interval(downbeats)

\* measure j (0-based) contains time t
Contains(j, t) == downbeats[j + 1] <= t /\ t < end_times[j + 1]

\* C4: a note produces no record whenever no downbeat is at or before its
\* onset or its onset is at or after the synthetic final boundary, so every
\* emitted record has an onset strictly before that boundary.
C4_DropsOutsideMeasures ==
    cur.n > 0 =>
        /\ ((\A j \in DOMAIN downbeats : downbeats[j] > cur.onset)
               \/ cur.onset >= SyntheticEnd) => ~cur.emitted
        /\ cur.emitted => cur.onset < SyntheticEnd

\* C8: for an onset t with D[0] <= t < synthetic end, the resolved measure
\* is the one index i with D[i] <= t < end_times[i], duplicates included.
C8_UniqueContainment ==
    (cur.n > 0 /\ downbeats[1] <= cur.onset /\ cur.onset < SyntheticEnd) =>
        /\ ~cur.dropped
        /\ Contains(cur.idx, cur.onset)
        /\ \A j \in 0..(Len(downbeats) - 1) :
              Contains(j, cur.onset) => j = cur.idx

C8_Witness ==
    /\ cur.n > 0 /\ downbeats[1] <= cur.onset /\ cur.onset < SyntheticEnd
    /\ \E a, b \in DOMAIN downbeats :
          a < b /\ downbeats[a] = downbeats[b] /\ downbeats[a] = cur.onset
    /\ ~cur.dropped

\* the duration of the change point with the greatest measure <= m, 2.0 s
\* when m precedes every change point
ExpectedDuration(ts, m) ==
    LET before == {j \in DOMAIN ts : ts[j][1] <= m}
    IN IF before = {} THEN 2 * Unit
       ELSE LET j == CHOOSE a \in before : \A b \in before : ts[b][1] <= ts[a][1]
            IN sig_to_duration(ts[j][2])

\* C9: every duration the sig_map loop stores is that of the last change
\* point at or before the measure, 2.0 s before the first change point, and
\* the loop covers measures 1..len(downbeats).
C9_SigMapEffective ==
    /\ \A m \in DOMAIN sig_map : sig_map[m] = ExpectedDuration(ts_points, m)
    /\ pc \in {"notes", "assign", "written"} => DOMAIN sig_map = DOMAIN downbeats

C9_Witness ==
    /\ pc = "notes"
    /\ Len(ts_points) >= 2
    /\ ts_points[1][1] > 1
    /\ Len(sig_map) >= ts_points[2][1]
    /\ sig_map[ts_points[1][1]] # sig_map[ts_points[2][1]]
    /\ sig_map[1] # sig_map[ts_points[1][1]]

\* C10: the real duration of the measure of every note that is not dropped
\* is strictly positive, so the division cannot fail.
C10_PositiveRealDuration ==
    (cur.n > 0 /\ ~cur.dropped) => cur.real_duration > 0

\* the signature in force at measure m: the last change point at or before
\* it, 4/4 when none precedes it
EffectiveSig(ts, m) ==
    LET before == {j \in DOMAIN ts : ts[j][1] <= m}
    IN IF before = {} THEN "4/4"
       ELSE ts[CHOOSE a \in before : \A b \in before : ts[b][1] <= ts[a][1]][2]

\* C7: the time_signature of every written row is the signature in force at
\* the row's measure, 4/4 before the first change point and for a score
\* without change points.
C7_TimeSignatureEffective ==
    pc = "written" =>
        \A j \in DOMAIN df : df[j].time_signature = EffectiveSig(ts_points, df[j].measure)

----------------------------------------------------------------------------
(* Data_Prep_3.extract_time_signatures, and main's call of it.             *)

Absent == "absent"      \* attrib.get / find returned None
Empty == ""             \* an element without text: .text is None

\* int(text): the integer, or ValueError / TypeError
IsInt(text) == text \in {"1", "2", "3", "4", "6", "8"}
ParseInt(text) ==
    CASE text = "1" -> 1 [] text = "2" -> 2 [] text = "3" -> 3
      [] text = "4" -> 4 [] text = "6" -> 6 [] text = "8" -> 8

IntStr(n) ==
    CASE n = 1 -> "1" [] n = 2 -> "2" [] n = 3 -> "3"
      [] n = 4 -> "4" [] n = 6 -> "6" [] n = 8 -> "8"

\* f"{int(beats)}/{int(beat_type)}"
FormatSig(beats, beat_type) == IntStr(beats) \o "/" \o IntStr(beat_type)

Measure(number, has_time, beats, beat_type) ==
    [number |-> number, has_time |-> has_time, beats |-> beats, beat_type |-> beat_type]

GoodMeasures ==
    {Measure(n, TRUE, bt[1], bt[2]) :
        n \in {"1", "2"}, bt \in {<<"4", "4">>, <<"3", "4">>, <<"6", "8">>}}

OddMeasures ==
    { Measure("1", FALSE, Absent, Absent),   \* no attributes/time
      Measure(Absent, TRUE, "4", "4"),       \* no number attribute
      Measure("X1", TRUE, "3", "4"),         \* number is not an integer
      Measure("2", TRUE, Absent, "4"),       \* no <beats> child
      Measure("2", TRUE, "3", Absent),       \* no <beat-type> child
      Measure("2", TRUE, "x", "4"),          \* <beats> text is not an integer
      Measure("2", TRUE, Empty, "4") }       \* <beats> has no text

XmlMeasures == GoodMeasures \cup OddMeasures

XmlDocs ==
    {NoXml, [exists |-> TRUE, parses |-> FALSE, measures |-> <<>>]}
    \cup {[exists |-> TRUE, parses |-> TRUE, measures |-> ms] :
             ms \in SeqsUpTo(XmlMeasures, MaxXml)}

\* lines 50-54: the first signature of each measure number, by measure
FirstSig(points, m) ==
    points[CHOOSE a \in DOMAIN points :
              points[a][1] = m /\ \A b \in DOMAIN points : points[b][1] = m => a <= b][2]

RECURSIVE SortedItems(_, _)
SortedItems(points, ms) ==
    IF ms = {} THEN <<>>
    ELSE LET m == CHOOSE a \in ms : \A b \in ms : a <= b
         IN <<<<m, FirstSig(points, m)>>>> \o SortedItems(points, ms \ {m})

sorted_points(points) == SortedItems(points, {points[j][1] : j \in DOMAIN points})

InitTs ==
    /\ pc = "ts_start"
    /\ xml \in XmlDocs
    /\ k = 0 /\ fn_points = <<>>
    /\ ts_points = <<>>
    /\ IdleNotes /\ IdleSplit /\ IdleMerge /\ IdleBatch

TsOthers == UNCHANGED <<xml, notesVars, splitVars, mergeVars, batchVars>>

\* lines 155-157: ts_points = [], and the call only for an existing file
TsCheckFile ==
    /\ pc = "ts_start"
    /\ ts_points' = <<>>
    /\ pc' = IF xml.exists THEN "ts_parse" ELSE "ts_default"
    /\ UNCHANGED <<k, fn_points>>
    /\ TsOthers

\* lines 34-36: ET.parse raises on a document that is not well-formed XML
TsParse ==
    /\ pc = "ts_parse"
    /\ pc' = IF xml.parses THEN "ts_loop" ELSE "ts_parse_raised"
    /\ k' = 0
    /\ fn_points' = <<>>
    /\ UNCHANGED ts_points
    /\ TsOthers

\* lines 37-47: one <measure> element
TsMeasureStep ==
    /\ pc = "ts_loop"
    /\ k < Len(xml.measures)
    /\ LET measure == xml.measures[k + 1]
           num == measure.number
       IN IF measure.has_time /\ num # Absent
          THEN IF measure.beats = Absent \/ measure.beat_type = Absent
               THEN \* None.text: AttributeError, outside the try
                    /\ pc' = "ts_raised"
                    /\ UNCHANGED <<k, fn_points>>
               ELSE IF IsInt(num) /\ IsInt(measure.beats) /\ IsInt(measure.beat_type)
                    THEN /\ fn_points' = Append(fn_points,
                                <<ParseInt(num), FormatSig(ParseInt(measure.beats),
                                                           ParseInt(measure.beat_type))>>)
                         /\ k' = k + 1
                         /\ pc' = pc
                    ELSE \* ValueError or TypeError: continue
                         /\ k' = k + 1
                         /\ UNCHANGED <<pc, fn_points>>
          ELSE /\ k' = k + 1
               /\ UNCHANGED <<pc, fn_points>>
    /\ UNCHANGED ts_points
    /\ TsOthers

\* lines 48-55 and 159: the sorted first occurrences reach main
TsReturn ==
    /\ pc = "ts_loop"
    /\ k = Len(xml.measures)
    /\ ts_points' = sorted_points(fn_points)
    /\ pc' = "ts_done"
    /\ UNCHANGED <<k, fn_points>>
    /\ TsOthers

\* lines 160-161: except Exception: print; ts_points stays []
TsCaught ==
    /\ pc \in {"ts_raised", "ts_parse_raised"}
    /\ pc' = IF pc = "ts_raised" THEN "ts_done" ELSE "ts_default"
    /\ UNCHANGED <<ts_points, k, fn_points>>
    /\ TsOthers

NextTs == TsCheckFile \/ TsParse \/ TsMeasureStep \/ TsReturn \/ TsCaught

SpecTs == InitTs /\ [][NextTs]_vars

WellFormed(measure) ==
    /\ measure.has_time
    /\ IsInt(measure.number) /\ IsInt(measure.beats) /\ IsInt(measure.beat_type)

\* C6: a malformed time-signature declaration costs only its own measure:
\* once the table of a parsable score is in main's hands, every measure
\* with a well-formed declaration has its change point in it.
C6_MalformedMeasureSkippedAlone ==
    pc = "ts_done" =>
        \A j \in DOMAIN xml.measures :
            WellFormed(xml.measures[j]) =>
                \E a \in DOMAIN ts_points :
                    ts_points[a][1] = ParseInt(xml.measures[j].number)

----------------------------------------------------------------------------
(* Data_Merge_Final.merge_perf_pure                                        *)

\* A note table as Data_Prep_3 writes it: rows ascending by onset.  The
\* j-th note of a 4/4 measure sits j seconds into it and lasts one second.
RECURSIVE TableOf(_, _)
TableOf(ms, done) ==
    IF ms = <<>> THEN <<>>
    ELSE LET m == Head(ms)
             earlier == Cardinality({j \in DOMAIN done : done[j] = m})
             measure_start == (m - 1) * 2 * Unit
         IN <<[measure |-> m, note |-> "C4",
               onset |-> measure_start + earlier * Unit,
               offset |-> measure_start + (earlier + 1) * Unit,
               measure_start |-> measure_start,
               measure_end |-> measure_start + 2 * Unit]>>
            \o TableOf(Tail(ms), Append(done, m))

Tables ==
    {TableOf(ms, <<>>) :
        ms \in {s \in SeqsUpTo(1..MaxMeasure, MaxRows) :
                    \A a, b \in DOMAIN s : a < b => s[a] <= s[b]}}

Column(table, m) == SelectSeq(table, LAMBDA row : row.measure = m)
MeasuresOf(table) == {table[j].measure : j \in DOMAIN table}

RECURSIVE SortedSet(_)
SortedSet(S) ==
    IF S = {} THEN <<>>
    ELSE LET m == CHOOSE a \in S : \A b \in S : a <= b
         IN <<m>> \o SortedSet(S \ {m})

\* line 92 without the intersection
common_measures_perf_only(perf, pure) == SortedSet(MeasuresOf(perf))

\* line 92: sorted(set(perf_df['measure']).intersection(pure_df['measure']))
common_measures(perf, pure) == SortedSet(MeasuresOf(perf) \cap MeasuresOf(pure))

\* lines 95-121: the record of measure m; json.dumps keeps the lists' order
merged_record(perf, pure, m) ==
    LET perf_sec == Column(perf, m)
        pure_sec == Column(pure, m)
        measure_start == perf_sec[1].measure_start
        measure_end == perf_sec[1].measure_end
        measure_dur == measure_end - measure_start
    IN [measure |-> m,
        x |-> [j \in DOMAIN perf_sec |->
                 <<perf_sec[j].note, perf_sec[j].onset - measure_start,
                   perf_sec[j].offset - perf_sec[j].onset, measure_dur>>],
        y |-> [j \in DOMAIN pure_sec |->
                 <<pure_sec[j].note, pure_sec[j].onset - measure_start,
                   pure_sec[j].offset - measure_start>>]]

InitMerge ==
    /\ pc = "merge_start"
    /\ pure_isfile \in BOOLEAN
    /\ perf_df \in Tables
    /\ pure_df \in IF pure_isfile THEN Tables ELSE {<<>>}
    /\ measures = <<>> /\ mi = 0 /\ merge_records = <<>>
    /\ ts_points = <<>>
    /\ IdleNotes /\ IdleTs /\ IdleSplit /\ IdleBatch

MergeOthers ==
    UNCHANGED <<ts_points, pure_isfile, perf_df, pure_df, notesVars, tsVars,
                splitVars, batchVars>>

\* lines 83-92: no score table, no records; else the common measures
MergeOpen ==
    /\ pc = "merge_start"
    /\ IF ~pure_isfile
       THEN /\ pc' = "merge_returned"
            /\ UNCHANGED measures
       ELSE /\ measures' = common_measures(perf_df, pure_df)
            /\ pc' = "merge_loop"
    /\ mi' = 0
    /\ merge_records' = <<>>
    /\ MergeOthers

\* lines 94-121: one measure of the loop
MergeMeasure ==
    /\ pc = "merge_loop"
    /\ mi < Len(measures)
    /\ merge_records' = Append(merge_records,
                               merged_record(perf_df, pure_df, measures[mi + 1]))
    /\ mi' = mi + 1
    /\ UNCHANGED <<pc, measures>>
    /\ MergeOthers

\* line 123
MergeReturn ==
    /\ pc = "merge_loop"
    /\ mi = Len(measures)
    /\ pc' = "merge_returned"
    /\ UNCHANGED <<measures, mi, merge_records>>
    /\ MergeOthers

NextMerge == MergeOpen \/ MergeMeasure \/ MergeReturn

SpecMerge == InitMerge /\ [][NextMerge]_vars

\* C1: the merge of a performance table and its score table holds exactly
\* one record for every measure index present in both tables and none for
\* an index present in only one.
C1_MergeIntersection ==
    (pc = "merge_returned" /\ pure_isfile) =>
        /\ \A m \in MeasuresOf(perf_df) \cap MeasuresOf(pure_df) :
              Cardinality({j \in DOMAIN merge_records : merge_records[j].measure = m}) = 1
        /\ \A j \in DOMAIN merge_records :
              merge_records[j].measure \in MeasuresOf(perf_df) \cap MeasuresOf(pure_df)

C1_Witness ==
    /\ pc = "merge_returned" /\ pure_isfile
    /\ Len(merge_records) >= 2
    /\ MeasuresOf(perf_df) \ MeasuresOf(pure_df) # {}
    /\ MeasuresOf(pure_df) \ MeasuresOf(perf_df) # {}

----------------------------------------------------------------------------
(* Data_Merge_Final: piece discovery and the train/test/validation split.  *)
(* A path is the sequence of its components: "a/" is <<"a", "">>, "./a" is *)
(* <<".", "a">>.  The split ratios are counted in tenths.                  *)

\* os.path.normpath on a relative path
RECURSIVE NormComps(_, _)
NormComps(comps, acc) ==
    IF comps = <<>> THEN acc
    ELSE LET c == Head(comps)
         IN IF c \in {"", "."} THEN NormComps(Tail(comps), acc)
            ELSE IF c = ".." /\ acc # <<>> /\ acc[Len(acc)] # ".."
                 THEN NormComps(Tail(comps), SubSeq(acc, 1, Len(acc) - 1))
                 ELSE NormComps(Tail(comps), Append(acc, c))

normpath(path) ==
    LET comps == NormComps(path, <<>>) IN IF comps = <<>> THEN <<".">> ELSE comps

\* directories of the corpus that hold midi_score.csv, as os.path.relpath
\* names them
CorpusPieces == {<<"a">>, <<"b">>, <<"c">>, <<"d", "x">>}

\* the performance tables of a piece, os.path.join(root, f)
FilesOf(piece) ==
    IF piece = <<"a">>
    THEN <<[piece |-> piece, name |-> "perf1.csv"], [piece |-> piece, name |-> "perf2.csv"]>>
    ELSE <<[piece |-> piece, name |-> "perf1.csv"]>>

ForceEntries == {<<"a">>, <<"a", "">>, <<"d", "x">>, <<"z">>}
SplitTenths == {0, 4, 5, 10}

RECURSIVE KeyList(_)
KeyList(S) ==
    IF S = {} THEN <<>>
    ELSE LET x == CHOOSE a \in S : TRUE IN <<x>> \o KeyList(S \ {x})

\* seq[lo:hi] of Python for 0 <= lo
Slice(seq, lo, hi) ==
    LET h == IF hi > Len(seq) THEN Len(seq) ELSE hi
    IN IF lo >= h THEN <<>> ELSE SubSeq(seq, lo + 1, h)

\* chain.from_iterable(piece_to_files[p] for p in pieces if p in piece_to_files)
RECURSIVE flatten_files(_, _)
flatten_files(pieces, p2f) ==
    IF pieces = <<>> THEN <<>>
    ELSE (IF Head(pieces) \in DOMAIN p2f THEN p2f[Head(pieces)] ELSE <<>>)
         \o flatten_files(Tail(pieces), p2f)

InitSplit ==
    /\ pc = "walk"
    /\ force_test_pieces \in SeqsUpTo(ForceEntries, MaxForce)
    /\ TRAIN_SPLIT \in SplitTenths
    /\ TEST_SPLIT \in SplitTenths
    /\ piece_to_files = <<>> /\ all_pieces = <<>>
    /\ remaining_pieces = <<>> /\ train_pieces = <<>> /\ test_pieces = <<>>
    /\ val_pieces = <<>> /\ train_files = <<>> /\ test_files = <<>>
    /\ val_files = <<>>
    /\ ts_points = <<>>
    /\ IdleNotes /\ IdleTs /\ IdleMerge /\ IdleBatch

SplitOthers ==
    UNCHANGED <<ts_points, force_test_pieces, TRAIN_SPLIT, TEST_SPLIT,
                notesVars, tsVars, mergeVars, batchVars>>

\* lines 20-30: the pieces found under FEATURES_ROOT and their tables
Walk ==
    /\ pc = "walk"
    /\ \E found \in SUBSET CorpusPieces :
          /\ piece_to_files' = [piece \in found |-> FilesOf(piece)]
          /\ all_pieces' = KeyList(found)
    /\ pc' = "shuffle"
    /\ UNCHANGED <<remaining_pieces, train_pieces, test_pieces, val_pieces,
                   train_files, test_files, val_files>>
    /\ SplitOthers

\* line 31: random.shuffle leaves some order of the same pieces
Shuffle ==
    /\ pc = "shuffle"
    /\ all_pieces' \in Reorderings(all_pieces)
    /\ pc' = "split"
    /\ UNCHANGED <<piece_to_files, remaining_pieces, train_pieces, test_pieces,
                   val_pieces, train_files, test_files, val_files>>
    /\ SplitOthers

\* lines 50-60
SplitPieces ==
    /\ pc = "split"
    /\ LET normalized_forced == {normpath(force_test_pieces[j]) : j \in DOMAIN force_test_pieces}
           remaining == SelectSeq(all_pieces, LAMBDA piece : normpath(piece) \notin normalized_forced)
           n == Len(remaining)
           n_train == (n * TRAIN_SPLIT) \div 10
           n_test == (n * TEST_SPLIT) \div 10
       IN /\ remaining_pieces' = remaining
          /\ train_pieces' = Slice(remaining, 0, n_train)
          /\ test_pieces' = force_test_pieces \o Slice(remaining, n_train, n_train + n_test)
          /\ val_pieces' = Slice(remaining, n_train + n_test, n)
    /\ pc' = "flatten"
    /\ UNCHANGED <<piece_to_files, all_pieces, train_files, test_files, val_files>>
    /\ SplitOthers

\* lines 63-79: the three file lists, written out as train/test/val.txt
FlattenFiles ==
    /\ pc = "flatten"
    /\ train_files' = flatten_files(train_pieces, piece_to_files)
    /\ test_files' = flatten_files(test_pieces, piece_to_files)
    /\ val_files' = flatten_files(val_pieces, piece_to_files)
    /\ pc' = "split_done"
    /\ UNCHANGED <<piece_to_files, all_pieces, remaining_pieces, train_pieces,
                   test_pieces, val_pieces>>
    /\ SplitOthers

NextSplit == Walk \/ Shuffle \/ SplitPieces \/ FlattenFiles

SpecSplit == InitSplit /\ [][NextSplit]_vars

AllIn(piece, files) == \A f \in Range(piece_to_files[piece]) : f \in Range(files)
NoneIn(piece, files) == \A f \in Range(piece_to_files[piece]) : f \notin Range(files)

\* C2: every discovered piece has all its files in exactly one of the
\* three file lists and none in the other two, whatever the pieces, the
\* force list, the shuffle order and the split ratios.
C2_PiecePartition ==
    pc = "split_done" =>
        \A piece \in DOMAIN piece_to_files :
            \/ AllIn(piece, train_files) /\ NoneIn(piece, test_files) /\ NoneIn(piece, val_files)
            \/ NoneIn(piece, train_files) /\ AllIn(piece, test_files) /\ NoneIn(piece, val_files)
            \/ NoneIn(piece, train_files) /\ NoneIn(piece, test_files) /\ AllIn(piece, val_files)

\* C3: every force-listed piece that exists in the corpus has all its files
\* in the test list and none in the train or validation list, whatever the
\* shuffle order.
C3_ForcedPiecesInTest ==
    pc = "split_done" =>
        \A j \in DOMAIN force_test_pieces :
            LET piece == normpath(force_test_pieces[j])
            IN piece \in DOMAIN piece_to_files =>
                  /\ AllIn(piece, test_files)
                  /\ NoneIn(piece, train_files)
                  /\ NoneIn(piece, val_files)

----------------------------------------------------------------------------
(* The two batch loops: main of Data_Prep_3 over the MIDI files, then the  *)
(* dataset loop of Data_Merge_Final over the three file lists.  What a     *)
(* single file does is modelled above; here a file is read well or raises. *)

Item(kind, piece, name) == [kind |-> kind, piece |-> piece, name |-> name]
File(piece, name) == [piece |-> piece, name |-> name]
FileOfItem(item) == File(item.piece, item.name)

BatchPieces == <<"p1", "p2">>
PerfsOf(piece) == IF piece = "p1" THEN <<"perf_a">> ELSE <<"perf_b", "perf_c">>

\* os.walk: per directory the score document, then its MIDI files
PrepOrder ==
    Flatten([j \in DOMAIN BatchPieces |->
        LET piece == BatchPieces[j]
        IN <<Item("xml", piece, "xml_score"), Item("mid", piece, "midi_score")>>
           \o [a \in DOMAIN PerfsOf(piece) |-> Item("mid", piece, PerfsOf(piece)[a])]])

MidiFiles == {FileOfItem(PrepOrder[j]) : j \in {a \in DOMAIN PrepOrder : PrepOrder[a].kind = "mid"}}

Failure(file, why) == [file |-> file, why |-> why]
FailedFiles == {f.file : f \in failed}

InitBatch ==
    /\ pc = "prep"
    /\ todo = PrepOrder
    /\ csvs = {} /\ failed = {} /\ split_out = {} /\ merged_now = <<>>
    /\ train_files = <<>> /\ test_files = <<>> /\ val_files = <<>>
    /\ piece_to_files = <<>> /\ all_pieces = <<>> /\ force_test_pieces = <<>>
    /\ TRAIN_SPLIT = 5 /\ TEST_SPLIT = 4
    /\ remaining_pieces = <<>> /\ train_pieces = <<>> /\ test_pieces = <<>>
    /\ val_pieces = <<>>
    /\ ts_points = <<>>
    /\ IdleNotes /\ IdleTs /\ IdleMerge

BatchOthers ==
    UNCHANGED <<ts_points, piece_to_files, all_pieces, force_test_pieces,
                TRAIN_SPLIT, TEST_SPLIT, remaining_pieces, train_pieces,
                test_pieces, val_pieces, notesVars, tsVars, mergeVars>>

\* Data_Prep_3 lines 155-161: the score document of a directory; a failure
\* is printed and the directory's files are processed with ts_points = []
PrepXml ==
    /\ pc = "prep" /\ todo # <<>> /\ Head(todo).kind = "xml"
    /\ \E outcome \in {"ok", "raises"} :
          failed' = IF outcome = "raises"
                    THEN failed \cup {Failure(FileOfItem(Head(todo)), "xml")}
                    ELSE failed
    /\ todo' = Tail(todo)
    /\ UNCHANGED <<pc, csvs, split_out, merged_now, train_files, test_files, val_files>>
    /\ BatchOthers

\* Data_Prep_3 lines 164-182: one MIDI file
PrepMidi ==
    /\ pc = "prep" /\ todo # <<>> /\ Head(todo).kind = "mid"
    /\ LET file == FileOfItem(Head(todo))
       IN \E outcome \in {"no_annotation", "raises", "ok"} :
             /\ failed' = IF outcome = "ok" THEN failed
                          ELSE failed \cup {Failure(file, outcome)}
             /\ csvs' = IF outcome = "ok" THEN csvs \cup {file} ELSE csvs
    /\ todo' = Tail(todo)
    /\ UNCHANGED <<pc, split_out, merged_now, train_files, test_files, val_files>>
    /\ BatchOthers

PrepEnd ==
    /\ pc = "prep" /\ todo = <<>>
    /\ pc' = "prep_done"
    /\ UNCHANGED <<todo, csvs, failed, split_out, merged_now, train_files,
                   test_files, val_files>>
    /\ BatchOthers

\* the performance tables of the pieces a split holds, piece by piece
RECURSIVE ListFiles(_, _, _)
ListFiles(pieces, assign, split) ==
    IF pieces = <<>> THEN <<>>
    ELSE LET piece == Head(pieces)
             perfs == SelectSeq([a \in DOMAIN PerfsOf(piece) |-> File(piece, PerfsOf(piece)[a])],
                                LAMBDA f : f \in csvs)
         IN (IF piece \in DOMAIN assign /\ assign[piece] = split THEN perfs ELSE <<>>)
            \o ListFiles(Tail(pieces), assign, split)

SplitItems(files, split) ==
    [a \in DOMAIN files |-> Item("csv", files[a].piece, files[a].name)]
    \o <<Item("save", split, split)>>

\* Data_Merge_Final lines 20-79: pieces with a midi_score.csv, each given
\* whole to one split (the split itself is SpecSplit's subject)
MergeGather ==
    /\ pc = "prep_done"
    /\ LET found == {piece \in Range(BatchPieces) : File(piece, "midi_score") \in csvs}
       IN \E assign \in [found -> {"train", "test", "val"}] :
             /\ train_files' = ListFiles(BatchPieces, assign, "train")
             /\ test_files' = ListFiles(BatchPieces, assign, "test")
             /\ val_files' = ListFiles(BatchPieces, assign, "val")
    /\ todo' = SplitItems(train_files', "train") \o SplitItems(test_files', "test")
                  \o SplitItems(val_files', "val")
    /\ merged_now' = <<>>
    /\ pc' = "merge"
    /\ UNCHANGED <<csvs, failed, split_out>>
    /\ BatchOthers

\* Data_Merge_Final line 127: merge_perf_pure(p) inside the list
\* comprehension; pd.read_csv raises on a table it cannot read, and nothing
\* around the call catches it
MergeFile ==
    /\ pc = "merge" /\ todo # <<>> /\ Head(todo).kind = "csv"
    /\ LET file == FileOfItem(Head(todo))
       IN \E outcome \in {"ok", "raises"} :
             IF outcome = "ok"
             THEN /\ merged_now' = Append(merged_now, file)
                  /\ todo' = Tail(todo)
                  /\ UNCHANGED <<pc, failed>>
             ELSE /\ failed' = failed \cup {Failure(file, "read_csv")}
                  /\ pc' = "aborted"
                  /\ UNCHANGED <<todo, merged_now>>
    /\ UNCHANGED <<csvs, split_out, train_files, test_files, val_files>>
    /\ BatchOthers

\* Data_Merge_Final lines 128-131: the split's records are saved
MergeSave ==
    /\ pc = "merge" /\ todo # <<>> /\ Head(todo).kind = "save"
    /\ split_out' = split_out \cup Range(merged_now)
    /\ merged_now' = <<>>
    /\ todo' = Tail(todo)
    /\ UNCHANGED <<pc, csvs, failed, train_files, test_files, val_files>>
    /\ BatchOthers

MergeEnd ==
    /\ pc = "merge" /\ todo = <<>>
    /\ pc' = "done"
    /\ UNCHANGED <<todo, csvs, failed, split_out, merged_now, train_files,
                   test_files, val_files>>
    /\ BatchOthers

NextBatch ==
    PrepXml \/ PrepMidi \/ PrepEnd \/ MergeGather \/ MergeFile \/ MergeSave \/ MergeEnd

SpecBatch == InitBatch /\ [][NextBatch]_vars

Listed == Range(train_files) \cup Range(test_files) \cup Range(val_files)

\* C5: a failure on one file never aborts either pass: the normalization
\* pass writes the table of every file that did not fail, and the dataset
\* pass reaches its end with the records of every listed file that did not
\* fail saved.
C5_IsolateAndContinue ==
    /\ pc # "aborted"
    /\ pc \in {"prep_done", "merge", "done"} =>
          \A f \in MidiFiles : f \notin FailedFiles => f \in csvs
    /\ pc = "done" =>
          \A f \in Listed : f \notin FailedFiles => f \in split_out

============================================================================
